---- MODULE Spec2Model ----
(***************************************************************************)
(* Model of app/services/diputados_service.py: the D'Hondt apportioner     *)
(* dhondt_alloc and the poll-to-roster reconciler                          *)
(* assign_votes_to_candidates.                                             *)
(*                                                                         *)
(* A vote mapping (a Python dict) is a sequence of vote totals: position   *)
(* i is the i-th key in insertion order, which is the order .items() and   *)
(* the dict comprehension iterate in.  A quotient votes / divisor is kept  *)
(* as the pair <<votes, divisor>> and compared by cross-multiplication;    *)
(* for the small integers used here IEEE division is correctly rounded,    *)
(* so two float quotients are equal exactly when the fractions are.        *)
(***************************************************************************)
EXTENDS Integers, Sequences, FiniteSets, TLC

\* ---------------------------------------------------------------- bounds
MaxListas == 3
MaxVotos == 3
MaxEscanos == 3
MaxCandidatos == 2
MaxEncuestas == 2
VotoEncuesta == 2
VotosPrevios == 3
MaxFilas == 2

\* threshold: float = 0.8, in thousandths
DefaultThreshold == 800

VARIABLES
    votos_por_lista,   \* dhondt_alloc argument: votes per entity, insertion order
    num_escanos,       \* dhondt_alloc argument: seats to distribute
    cocientes,         \* local of the last call: the sorted quotient pool
    ganadores,         \* local of the last call: the selected quotients
    asignacion,        \* value returned by the last call
    llamada,           \* "none" before the first call, then how the last call ended
    prev_votos,        \* arguments and result of the call before the last one
    prev_escanos,
    prev_asignacion,
    prev_op,           \* how the last call's arguments were derived
    candidates,        \* assign_votes_to_candidates argument, mutated in place
    candidates_in,     \* the candidate records as they were passed in
    encuesta_lista,    \* assign_votes_to_candidates argument: the poll entries
    threshold,         \* assign_votes_to_candidates argument, in thousandths
    matched_candidates,\* local of the call: indices of matched candidates
    matched_encuestas, \* local of the call: indices of matched poll entries
    emparejados,       \* the pairs <<e_idx, best_match>> accepted by the call
    estado,            \* "none" before the call, then "returned" or "raised"
    corridas,          \* number of calls of assign_votes_to_candidates so far
    primera,           \* what the first call left: its candidates and its end
    df,                \* the district's rows (nombre, cupo, pacto)
    seats,             \* the district's seat count
    encuestas_by_d,    \* the district's poll entries
    resultado,         \* compute_dhondt: its locals when it returned
    computado,         \* "none" before compute_dhondt, then "returned" or "error"
    resumen,           \* resumen_nacional: its accumulators when it returned
    resumido           \* "none" before resumen_nacional, then "returned"

dhondtVars == <<votos_por_lista, num_escanos, cocientes, ganadores, asignacion,
                llamada, prev_votos, prev_escanos, prev_asignacion, prev_op>>

assignVars == <<candidates, candidates_in, encuesta_lista, threshold,
                matched_candidates, matched_encuestas, emparejados, estado,
                corridas, primera>>

computeVars == <<df, seats, encuestas_by_d, resultado, computado, resumen, resumido>>

vars == <<dhondtVars, assignVars, computeVars>>

\* ------------------------------------------------------------ dhondt_alloc
RECURSIVE SumSeq(_)
SumSeq(s) == IF s = <<>> THEN 0 ELSE Head(s) + SumSeq(Tail(s))

\* range(1, num_escanos + 1): empty when num_escanos <= 0
DivisoresOffByOne(n) == 1..(n - 1)
Divisores(n) == 1..n

\* the nested loops of lines 110-113, in append order
TablaCocientes(votos, n) ==
    LET nd == Cardinality(Divisores(n))
    IN  [k \in 1..(Len(votos) * nd) |->
            LET lista == ((k - 1) \div nd) + 1
                divisor == ((k - 1) % nd) + 1
            IN  [votos |-> votos[lista], divisor |-> divisor, lista |-> lista]]

\* x.valor > y.valor and x.valor == y.valor for valor = votos / divisor
ValorMayorInvertido(x, y) == x.votos * y.divisor < y.votos * x.divisor
ValorMayor(x, y) == x.votos * y.divisor > y.votos * x.divisor
ValorIgual(x, y) == x.votos * y.divisor = y.votos * x.divisor

\* position i of the pool is placed before position j by
\* cocientes.sort(reverse=True, key=...): greater key first, equal keys in
\* their original order (list.sort is stable, also with reverse=True)
AntesInestable(c, i, j) ==
    \/ ValorMayor(c[i], c[j])
    \/ ValorIgual(c[i], c[j]) /\ i > j
Antes(c, i, j) ==
    \/ ValorMayor(c[i], c[j])
    \/ ValorIgual(c[i], c[j]) /\ i < j

Ordenar(c) ==
    [k \in 1..Len(c) |->
        c[CHOOSE i \in 1..Len(c) :
            Cardinality({j \in 1..Len(c) : Antes(c, j, i)}) = k - 1]]

\* the slice s[:n], negative n counting from the end
SliceDesdeFinal(s, n) ==
    LET desde == IF n >= 0 THEN (IF n < Len(s) THEN Len(s) - n ELSE 0)
                 ELSE (IF 0 - n < Len(s) THEN 0 - n ELSE Len(s))
    IN  [k \in 1..(Len(s) - desde) |-> s[desde + k]]
Slice(s, n) ==
    LET hasta == IF n >= 0 THEN (IF n < Len(s) THEN n ELSE Len(s))
                 ELSE (IF Len(s) + n > 0 THEN Len(s) + n ELSE 0)
    IN  [k \in 1..hasta |-> s[k]]

\* lines 122-124
Contar(votos, g) ==
    [lista \in 1..Len(votos) |->
        Cardinality({k \in 1..Len(g) : g[k].lista = lista})]

dhondt_alloc(votos, n) ==
    Contar(votos, Slice(Ordenar(TablaCocientes(votos, n)), n))

\* ------------------------------------------------------------- the calls
\* the arguments include one negative vote total and one negative seat count
VotosPosibles == (0 - 1)..MaxVotos
EscanosPosibles == (0 - 1)..MaxEscanos
Mapas == UNION {[1..n -> VotosPosibles] : n \in 0..MaxListas}

\* the worked example: 100000, 80000 and 30000 votes, 5 seats
EntradasEjemplo == { <<<<100000, 80000, 30000>>, 5>> }
EntradasDhondt == (Mapas \X EscanosPosibles) \cup EntradasEjemplo

InitDhondt ==
    /\ \E entrada \in EntradasDhondt :
          /\ votos_por_lista = entrada[1]
          /\ num_escanos = entrada[2]
    /\ cocientes = <<>>
    /\ ganadores = <<>>
    /\ asignacion = <<>>
    /\ llamada = "none"
    /\ prev_votos = <<>>
    /\ prev_escanos = 0
    /\ prev_asignacion = <<>>
    /\ prev_op = "none"
    /\ candidates = <<>>
    /\ candidates_in = <<>>
    /\ encuesta_lista = <<>>
    /\ threshold = DefaultThreshold
    /\ matched_candidates = {}
    /\ matched_encuestas = {}
    /\ emparejados = {}
    /\ estado = "none"
    /\ corridas = 0
    /\ primera = <<>>
    /\ df = <<>>
    /\ seats = 0
    /\ encuestas_by_d = <<>>
    /\ resultado = <<>>
    /\ computado = "none"
    /\ resumen = <<>>
    /\ resumido = "none"

\* one call dhondt_alloc(votos, n); the function has no raise statement, so
\* every call ends by returning
Llamar(votos, n) ==
    /\ votos_por_lista' = votos
    /\ num_escanos' = n
    /\ cocientes' = Ordenar(TablaCocientes(votos, n))
    /\ ganadores' = Slice(cocientes', n)
    /\ asignacion' = dhondt_alloc(votos, n)
    /\ llamada' = "returned"

DhondtAlloc ==
    /\ llamada = "none"
    /\ Llamar(votos_por_lista, num_escanos)
    /\ UNCHANGED <<prev_votos, prev_escanos, prev_asignacion, prev_op>>
    /\ UNCHANGED <<assignVars, computeVars>>

Recordar(op) ==
    /\ prev_votos' = votos_por_lista
    /\ prev_escanos' = num_escanos
    /\ prev_asignacion' = asignacion
    /\ prev_op' = op

\* a second call in which one entity has more votes
MasVotos ==
    /\ llamada = "returned"
    /\ prev_op = "none"
    /\ \E e \in 1..Len(votos_por_lista) :
         \E v \in VotosPosibles :
            /\ v > votos_por_lista[e]
            /\ Llamar([votos_por_lista EXCEPT ![e] = v], num_escanos)
    /\ Recordar("mas_votos")
    /\ UNCHANGED <<assignVars, computeVars>>

\* a second call with one more seat
MasEscanos ==
    /\ llamada = "returned"
    /\ prev_op = "none"
    /\ num_escanos < MaxEscanos
    /\ Llamar(votos_por_lista, num_escanos + 1)
    /\ Recordar("mas_escanos")
    /\ UNCHANGED <<assignVars, computeVars>>

NextDhondt == DhondtAlloc \/ MasVotos \/ MasEscanos

SpecDhondt == InitDhondt /\ [][NextDhondt]_vars

\* ---------------------------------------------------------------- normalize
\* A string is a sequence of characters.  "A_acute", "a_acute", "e_acute",
\* "i_acute" and "o_acute" stand for the precomposed letters U+00C1, U+00E1,
\* U+00E9, U+00ED and U+00F3, "comb_acute" for the combining mark U+0301,
\* " " for a blank.
Lower(c) ==
    CASE c = "A" -> "a"
      [] c = "B" -> "b"
      [] c = "C" -> "c"
      [] c = "J" -> "j"
      [] c = "K" -> "k"
      [] c = "L" -> "l"
      [] c = "M" -> "m"
      [] c = "P" -> "p"
      [] c = "A_acute" -> "a_acute"
      [] OTHER -> c

IsSpace(c) == c = " "

RECURSIVE LStrip(_)
LStrip(s) == IF s # <<>> /\ IsSpace(Head(s)) THEN LStrip(Tail(s)) ELSE s

RECURSIVE RStrip(_)
RStrip(s) ==
    IF s # <<>> /\ IsSpace(s[Len(s)]) THEN RStrip(SubSeq(s, 1, Len(s) - 1)) ELSE s

\* unicodedata.normalize("NFD", .) on one character
NFD(c) ==
    CASE c = "a_acute" -> <<"a", "comb_acute">>
      [] c = "e_acute" -> <<"e", "comb_acute">>
      [] c = "i_acute" -> <<"i", "comb_acute">>
      [] c = "o_acute" -> <<"o", "comb_acute">>
      [] OTHER -> <<c>>

\* the character class [\u0300-\u036f] of line 76
IsCombining(c) == c = "comb_acute"

RECURSIVE Decompose(_)
Decompose(s) == IF s = <<>> THEN <<>> ELSE NFD(Head(s)) \o Decompose(Tail(s))

NotCombining(c) == ~IsCombining(c)

normalizeSinDescomponer(s) ==
    IF s = <<>> THEN <<>>
    ELSE SelectSeq(RStrip(LStrip([k \in 1..Len(s) |-> Lower(s[k])])), NotCombining)
normalize(s) ==
    IF s = <<>> THEN <<>>
    ELSE SelectSeq(Decompose(RStrip(LStrip([k \in 1..Len(s) |-> Lower(s[k])]))),
                   NotCombining)

\* ---------------------------------------- difflib.SequenceMatcher(...).ratio()
\* The standard library's matcher with no junk: find the longest block common
\* to a[alo..ahi] and b[blo..bhi] (the one starting earliest in a, then
\* earliest in b), then recurse on the pieces to its left and to its right.
\* ratio() is 2 * matches / (len(a) + len(b)), and 1.0 for two empty strings.
IsBlock(a, b, i, j, k, ahi, bhi) ==
    /\ i + k - 1 <= ahi
    /\ j + k - 1 <= bhi
    /\ \A t \in 0..(k - 1) : a[i + t] = b[j + t]

Max(S) == CHOOSE x \in S : \A y \in S : y <= x
Min(S) == CHOOSE x \in S : \A y \in S : x <= y

find_longest_match(a, b, alo, ahi, blo, bhi) ==
    LET sizes == {k \in 1..(ahi - alo + 1) :
                    \E i \in alo..ahi, j \in blo..bhi : IsBlock(a, b, i, j, k, ahi, bhi)}
    IN  IF sizes = {} THEN <<alo, blo, 0>>
        ELSE LET k == Max(sizes)
                 i == Min({x \in alo..ahi :
                             \E j \in blo..bhi : IsBlock(a, b, x, j, k, ahi, bhi)})
                 j == Min({y \in blo..bhi : IsBlock(a, b, i, y, k, ahi, bhi)})
             IN  <<i, j, k>>

RECURSIVE Matches(_, _, _, _, _, _)
Matches(a, b, alo, ahi, blo, bhi) ==
    IF alo > ahi \/ blo > bhi THEN 0
    ELSE LET m == find_longest_match(a, b, alo, ahi, blo, bhi)
         IN  IF m[3] = 0 THEN 0
             ELSE m[3] + Matches(a, b, alo, m[1] - 1, blo, m[2] - 1)
                       + Matches(a, b, m[1] + m[3], ahi, m[2] + m[3], bhi)

\* a ratio is kept as the fraction <<numerator, denominator>>
Ratio(a, b) ==
    IF Len(a) + Len(b) = 0 THEN <<1, 1>>
    ELSE <<2 * Matches(a, b, 1, Len(a), 1, Len(b)), Len(a) + Len(b)>>

RatioGT(r, q) == r[1] * q[2] > q[1] * r[2]

\* best_ratio >= threshold, the threshold in thousandths
SuperaUmbralEstricto(r, thr) == r[1] * 1000 > thr * r[2]
SuperaUmbral(r, thr) == r[1] * 1000 >= thr * r[2]

\* round(best_ratio, 3) in thousandths (ties to even)
Round3(r) ==
    LET n == r[1] * 1000
        q == n \div r[2]
        rem2 == 2 * (n % r[2])
    IN  IF rem2 > r[2] \/ (rem2 = r[2] /\ q % 2 = 1) THEN q + 1 ELSE q

\* ------------------------------------------------ assign_votes_to_candidates
\* None is the empty sequence and any other optional value x is <<x>>.
None == <<>>
Some(x) == <<x>>

\* float(v or 0)
FloatOr0(v) == IF v = None THEN 0 ELSE v[1]

\* lines 191-199: scan all the names, keep the first one of highest ratio;
\* best_match stays None while no ratio exceeds 0.0
RECURSIVE Buscar(_, _, _, _, _)
Buscar(nombre_encuesta, names, i, best_match, best_ratio) ==
    IF i > Len(names) THEN [best_match |-> best_match, best_ratio |-> best_ratio]
    ELSE LET ratio == Ratio(nombre_encuesta, names[i])
         IN  IF RatioGT(ratio, best_ratio)
             THEN Buscar(nombre_encuesta, names, i + 1, Some(i), ratio)
             ELSE Buscar(nombre_encuesta, names, i + 1, best_match, best_ratio)

MejorCandidato(encuesta, names) ==
    Buscar(normalize(encuesta.nombre), names, 1, None, <<0, 1>>)

AceptarAcumula(st, e_idx, encuesta, b) ==
    [st EXCEPT
        !.candidates[b.best_match[1]] =
            [@ EXCEPT !.votes = @ + FloatOr0(encuesta.votos),
                      !.matched_from = Some(encuesta.nombre),
                      !.match_quality = Round3(b.best_ratio)],
        !.matched_candidates = @ \cup {b.best_match[1]},
        !.matched_encuestas = @ \cup {e_idx},
        !.emparejados = @ \cup {<<e_idx, b.best_match[1]>>}]
Aceptar(st, e_idx, encuesta, b) ==
    [st EXCEPT
        !.candidates[b.best_match[1]] =
            [@ EXCEPT !.votes = FloatOr0(encuesta.votos),
                      !.matched_from = Some(encuesta.nombre),
                      !.match_quality = Round3(b.best_ratio)],
        !.matched_candidates = @ \cup {b.best_match[1]},
        !.matched_encuestas = @ \cup {e_idx},
        !.emparejados = @ \cup {<<e_idx, b.best_match[1]>>}]

\* one iteration of the loop of lines 189-211 (nothing runs after a raise)
ProcesarSobrescribe(st, names, e_idx, encuesta, thr) ==
    LET b == MejorCandidato(encuesta, names)
    IN  IF b.best_match # None /\ SuperaUmbral(b.best_ratio, thr)
        THEN Aceptar(st, e_idx, encuesta, b)
        ELSE st

ProcesarExcluyendo(st, names, e_idx, encuesta, thr) ==
    LET libres == [i \in 1..Len(names) |->
                      IF i \in st.matched_candidates THEN <<"taken">> ELSE names[i]]
        b == MejorCandidato(encuesta, libres)
    IN  IF b.best_match # None /\ SuperaUmbral(b.best_ratio, thr)
        THEN Aceptar(st, e_idx, encuesta, b)
        ELSE st

ProcesarEncuesta(st, names, e_idx, encuesta, thr) ==
    LET b == MejorCandidato(encuesta, names)
    IN  IF st.raised THEN st
        ELSE IF b.best_match # None /\ SuperaUmbral(b.best_ratio, thr)
        THEN IF b.best_match[1] \in st.matched_candidates
             THEN [st EXCEPT !.raised = TRUE]
             ELSE Aceptar(st, e_idx, encuesta, b)
        ELSE st

RECURSIVE Bucle(_, _, _, _, _)
Bucle(st, names, encuestas, e_idx, thr) ==
    IF e_idx > Len(encuestas) THEN st
    ELSE Bucle(ProcesarEncuesta(st, names, e_idx, encuestas[e_idx], thr),
               names, encuestas, e_idx + 1, thr)

\* lines 178-183
SinEncuesta(cands) ==
    [i \in 1..Len(cands) |->
        [cands[i] EXCEPT !.votes = 0, !.matched_from = None, !.match_quality = 0]]

\* lines 213-218
SinMatch(cands, matched) ==
    [i \in 1..Len(cands) |->
        IF i \in matched THEN cands[i]
        ELSE [cands[i] EXCEPT !.votes = FloatOr0(Some(cands[i].votes)),
                              !.matched_from = None,
                              !.match_quality = 0]]

assign_votes_to_candidates(cands, encuestas, thr) ==
    IF encuestas = <<>>
    THEN [candidates |-> SinEncuesta(cands), matched_candidates |-> {},
          matched_encuestas |-> {}, emparejados |-> {}, raised |-> FALSE]
    ELSE LET names == [i \in 1..Len(cands) |-> normalize(cands[i].name)]
             st0 == [candidates |-> cands, matched_candidates |-> {},
                     matched_encuestas |-> {}, emparejados |-> {}, raised |-> FALSE]
             st == Bucle(st0, names, encuestas, 1, thr)
         IN  IF st.raised THEN st
             ELSE [st EXCEPT !.candidates = SinMatch(st.candidates, st.matched_candidates)]

\* ------------------------------------------------------- the reconciler call
NombresCandidatos ==
    { <<"A", "b", "c">>, <<"a_acute", "b">>, <<"x", "y">> }
NombresEncuesta ==
    { <<"a", "b", "C">>, <<" ", "A", "B", " ">>, <<"a">> }
Umbrales == {DefaultThreshold, 1000}

\* a roster: every record fresh as get_emol_csv builds it (lines 325-333), or
\* every record carrying votes and provenance from before
Roster(nombres, previo) ==
    [i \in 1..Len(nombres) |->
        IF previo
        THEN [name |-> nombres[i], votes |-> VotosPrevios,
              matched_from |-> Some(<<"x">>), match_quality |-> 1000]
        ELSE [name |-> nombres[i], votes |-> 0,
              matched_from |-> None, match_quality |-> 0]]

RostersPosibles ==
    {Roster(nombres, previo) :
        nombres \in UNION {[1..n -> NombresCandidatos] : n \in 0..MaxCandidatos},
        previo \in BOOLEAN}

EncuestasPosibles ==
    [nombre : NombresEncuesta,
     votos : {None, Some(VotoEncuesta)}]

\* the names of the worked examples
JoseAntonioKast ==
    <<"J", "o", "s", "e_acute", " ", "A", "n", "t", "o", "n", "i", "o", " ",
      "K", "a", "s", "t">>
JoseKast == <<"J", "o", "s", "e", " ", "K", "a", "s", "t">>
MariaPerez == <<"M", "a", "r", "i_acute", "a", " ", "P", "e_acute", "r", "e", "z">>
JuanLopez == <<"J", "u", "a", "n", " ", "L", "o_acute", "p", "e", "z">>

\* a one-candidate roster, a one-entry poll list and the default threshold
Ejemplo(candidato, encuesta) ==
    <<Roster(<<candidato>>, FALSE),
      <<[nombre |-> encuesta, votos |-> Some(VotoEncuesta)]>>,
      DefaultThreshold>>

ListasEncuesta == UNION {[1..n -> EncuestasPosibles] : n \in 0..MaxEncuestas}

EntradasAssign ==
    (RostersPosibles \X ListasEncuesta \X Umbrales)
    \cup {Ejemplo(JoseAntonioKast, JoseKast), Ejemplo(JuanLopez, MariaPerez)}

InitAssign ==
    /\ \E entrada \in EntradasAssign :
          /\ candidates_in = entrada[1]
          /\ encuesta_lista = entrada[2]
          /\ threshold = entrada[3]
    /\ candidates = candidates_in
    /\ matched_candidates = {}
    /\ matched_encuestas = {}
    /\ emparejados = {}
    /\ estado = "none"
    /\ corridas = 0
    /\ primera = <<>>
    /\ df = <<>>
    /\ seats = 0
    /\ encuestas_by_d = <<>>
    /\ resultado = <<>>
    /\ computado = "none"
    /\ resumen = <<>>
    /\ resumido = "none"
    /\ votos_por_lista = <<>>
    /\ num_escanos = 0
    /\ cocientes = <<>>
    /\ ganadores = <<>>
    /\ asignacion = <<>>
    /\ llamada = "none"
    /\ prev_votos = <<>>
    /\ prev_escanos = 0
    /\ prev_asignacion = <<>>
    /\ prev_op = "none"

\* one call assign_votes_to_candidates(candidates, encuesta_lista, threshold)
\* on the list object as it is now
Asignar ==
    LET r == assign_votes_to_candidates(candidates, encuesta_lista, threshold)
    IN  /\ candidates' = r.candidates
        /\ matched_candidates' = r.matched_candidates
        /\ matched_encuestas' = r.matched_encuestas
        /\ emparejados' = r.emparejados
        /\ estado' = IF r.raised THEN "raised" ELSE "returned"

\* the call, and then the same call once more on the candidate list the first
\* call left and the same poll list; primera keeps what the first call left
AssignVotes ==
    /\ corridas \in {0, 1}
    /\ Asignar
    /\ corridas' = corridas + 1
    /\ primera' = IF corridas = 0 THEN <<candidates', estado'>> ELSE primera
    /\ UNCHANGED <<candidates_in, encuesta_lista, threshold>>
    /\ UNCHANGED <<dhondtVars, computeVars>>

NextAssign == AssignVotes

SpecAssign == InitAssign /\ [][NextAssign]_vars

\* ------------------------------------------------------------ compute_dhondt
\* the literal 0.8 of lines 389 and 557, in thousandths
UmbralDistrito == 800

\* seats returned when the district is not found (lines 156 and 159)
DefaultSeats == 5

\* a missing pacto in the roster, and the None that replaces it at line 574
NaN == "nan"
Ninguno == "none"

\* float(enc["votos"]) of a numeric poll figure
Float(v) == v[1]

\* lines 378-386: scan the poll entries, keep the first one of highest ratio;
\* best_enc stays None while no ratio exceeds 0.0
RECURSIVE BuscarEncuesta(_, _, _, _, _)
BuscarEncuesta(nombre_emol, encuestas, k, best_enc, best_ratio) ==
    IF k > Len(encuestas) THEN [best_enc |-> best_enc, best_ratio |-> best_ratio]
    ELSE LET ratio == Ratio(nombre_emol, normalize(encuestas[k].nombre))
         IN  IF RatioGT(ratio, best_ratio)
             THEN BuscarEncuesta(nombre_emol, encuestas, k + 1, Some(k), ratio)
             ELSE BuscarEncuesta(nombre_emol, encuestas, k + 1, best_enc, best_ratio)

\* line 389
VotosDeFila(row, encuestas) ==
    LET b == BuscarEncuesta(normalize(row.nombre), encuestas, 1, None, <<0, 1>>)
    IN  IF b.best_ratio[1] * 1000 >= UmbralDistrito * b.best_ratio[2]
        THEN Float(encuestas[b.best_enc[1]].votos)
        ELSE 0

\* lines 375-396: one Candidate per row, in row order
CandidatosDe(filas, encuestas) ==
    [k \in 1..Len(filas) |->
        [name |-> filas[k].nombre,
         party_id |-> filas[k].cupo,
         votes |-> VotosDeFila(filas[k], encuestas)]]

\* sum(c.votes for c in candidates if c.party_id == partido)
VotosDePartido(cands, partido) ==
    SumSeq([i \in 1..Len(cands) |->
               IF cands[i].party_id = partido THEN cands[i].votes ELSE 0])

\* lines 399-407: one Party per cupo, at its first row, with that row's pacto
RECURSIVE AgruparPartidos(_, _, _, _, _)
AgruparPartidos(filas, cands, k, seen_parties, parties) ==
    IF k > Len(filas) THEN parties
    ELSE LET partido == filas[k].cupo
             pacto == filas[k].pacto
         IN  IF partido # "" /\ partido \notin seen_parties
             THEN AgruparPartidos(filas, cands, k + 1, seen_parties \cup {partido},
                      Append(parties, [id |-> partido, pact_id |-> pacto,
                                       votes |-> VotosDePartido(cands, partido)]))
             ELSE AgruparPartidos(filas, cands, k + 1, seen_parties, parties)

\* df["pacto"].dropna().unique().tolist(): first appearances, in row order
RECURSIVE PactNames(_, _, _)
PactNames(filas, k, names) ==
    IF k > Len(filas) THEN names
    ELSE IF filas[k].pacto # NaN /\ \A j \in 1..Len(names) : names[j] # filas[k].pacto
         THEN PactNames(filas, k + 1, Append(names, filas[k].pacto))
         ELSE PactNames(filas, k + 1, names)

\* sum(p.votes for p in parties if p.pact_id == name)
VotosDePacto(parties, name) ==
    SumSeq([i \in 1..Len(parties) |->
               IF parties[i].pact_id = name THEN parties[i].votes ELSE 0])

\* lines 410-414
AgruparPactos(names, parties) ==
    [k \in 1..Len(names) |-> [id |-> names[k], votes |-> VotosDePacto(parties, names[k])]]

\* line 417: the pacts of truthy id, a dict in insertion order
TieneId(p) == p.id # ""
PactVotesSoloPositivos(pacts) == SelectSeq(pacts, LAMBDA p : p.votes > 0)
PactVotes(pacts) == SelectSeq(pacts, TieneId)

\* the votes of a dict's entries, in insertion order
Valores(d) == [k \in 1..Len(d) |-> d[k].votes]

\* lines 423-427, the same as lines 588-592: the parties of the pact that have
\* positive votes share the pact's seats; None when the pact is skipped
SubAllocIncluyeCeros(parties, pacto, n_seats) ==
    LET sub_parties == SelectSeq(parties, LAMBDA p : p.pact_id = pacto)
        sub_votes == sub_parties
    IN  IF sub_votes = <<>> THEN None
        ELSE Some([ids |-> [k \in 1..Len(sub_votes) |-> sub_votes[k].id],
                   alloc |-> dhondt_alloc(Valores(sub_votes), n_seats)])
SubAlloc(parties, pacto, n_seats) ==
    LET sub_parties == SelectSeq(parties, LAMBDA p : p.pact_id = pacto)
        sub_votes == SelectSeq(sub_parties, LAMBDA p : p.votes > 0)
    IN  IF sub_votes = <<>> THEN None
        ELSE Some([ids |-> [k \in 1..Len(sub_votes) |-> sub_votes[k].id],
                   alloc |-> dhondt_alloc(Valores(sub_votes), n_seats)])

\* the loop of line 422 (and of line 587): one entry per pact of pact_alloc
SegundoNivelPresupuestoTotal(parties, pact_votes, pact_alloc) ==
    [k \in 1..Len(pact_votes) |->
        SubAlloc(parties, pact_votes[k].id, SumSeq(pact_alloc))]
SegundoNivel(parties, pact_votes, pact_alloc) ==
    [k \in 1..Len(pact_votes) |-> SubAlloc(parties, pact_votes[k].id, pact_alloc[k])]

\* [c for c in candidates if c.party_id == pid], as row numbers
DelPartido(cands, pid) ==
    SelectSeq([i \in 1..Len(cands) |-> i], LAMBDA i : cands[i].party_id = pid)

\* sorted(..., key=lambda x: x.votes, reverse=True): stable, so candidates of
\* equal votes keep their order
VaAntesAscendente(cands, idx, j, i) ==
    \/ cands[idx[j]].votes < cands[idx[i]].votes
    \/ (cands[idx[j]].votes = cands[idx[i]].votes /\ j < i)
VaAntes(cands, idx, j, i) ==
    \/ cands[idx[j]].votes > cands[idx[i]].votes
    \/ (cands[idx[j]].votes = cands[idx[i]].votes /\ j < i)

OrdenarPorVotos(cands, idx) ==
    [k \in 1..Len(idx) |->
        idx[CHOOSE i \in 1..Len(idx) :
            Cardinality({j \in 1..Len(idx) : VaAntes(cands, idx, j, i)}) = k - 1]]

\* lines 429-433
ElectosSinCorte(cands, pid, n) == OrdenarPorVotos(cands, DelPartido(cands, pid))
Electos(cands, pid, n) == Slice(OrdenarPorVotos(cands, DelPartido(cands, pid)), n)

\* lines 428-434 for one pact
RECURSIVE GanadoresDePartidos(_, _, _)
GanadoresDePartidos(cands, sub_alloc, j) ==
    IF j > Len(sub_alloc.ids) THEN <<>>
    ELSE Electos(cands, sub_alloc.ids[j], sub_alloc.alloc[j])
            \o GanadoresDePartidos(cands, sub_alloc, j + 1)

\* lines 421-434: winners, as row numbers, in the order they are appended
RECURSIVE Ganadores(_, _, _)
Ganadores(cands, sub_allocs, k) ==
    IF k > Len(sub_allocs) THEN <<>>
    ELSE (IF sub_allocs[k] = None THEN <<>>
          ELSE GanadoresDePartidos(cands, sub_allocs[k][1], 1))
            \o Ganadores(cands, sub_allocs, k + 1)

\* next((p.pact_id for p in parties if p.id == c.party_id), None)
PactoDelCandidato(parties, party_id) ==
    LET js == {j \in 1..Len(parties) : parties[j].id = party_id}
    IN  IF js = {} THEN Ninguno ELSE parties[Min(js)].pact_id

\* sorted(pact_alloc.keys(), key=lambda x: pact_alloc[x], reverse=True), as
\* positions in pact_alloc: stable, most seats first
OrdenarPorEscanos(pact_alloc) ==
    [k \in 1..Len(pact_alloc) |->
        CHOOSE i \in 1..Len(pact_alloc) :
            Cardinality({j \in 1..Len(pact_alloc) :
                            \/ pact_alloc[j] > pact_alloc[i]
                            \/ (pact_alloc[j] = pact_alloc[i] /\ j < i)}) = k - 1]

\* lines 440-468: one entry per pact of pact_alloc, with the winners whose
\* party belongs to the pact, most votes first
ConEscanos(cands, parties, pact_votes, pact_alloc, winners) ==
    LET orden == OrdenarPorEscanos(pact_alloc)
    IN  [k \in 1..Len(orden) |->
            LET pacto == pact_votes[orden[k]].id
                candidatos_pacto ==
                    SelectSeq(winners,
                        LAMBDA c : PactoDelCandidato(parties, cands[c].party_id) = pacto)
            IN  [pacto_id |-> pacto,
                 candidatos_electos |-> OrdenarPorVotos(cands, candidatos_pacto),
                 votos |-> pact_votes[orden[k]].votes,
                 escanos |-> pact_alloc[orden[k]]]]

\* lines 471-483: the pacts that are not in pact_alloc
SinEscanos(pacts) ==
    LET fuera == SelectSeq(pacts, LAMBDA p : ~TieneId(p))
    IN  [k \in 1..Len(fuera) |->
            [pacto_id |-> fuera[k].id, candidatos_electos |-> <<>>,
             votos |-> fuera[k].votes, escanos |-> 0]]

\* lines 436-483: the locals of the call and its result by pact
Construir(cands, parties, pacts, pact_votes, pact_alloc, sub_allocs, winners) ==
    [candidates |-> cands,
     parties |-> parties,
     pacts |-> pacts,
     pact_votes |-> pact_votes,
     pact_alloc |-> pact_alloc,
     sub_allocs |-> sub_allocs,
     winners |-> winners,
     resultado_por_pacto |->
         ConEscanos(cands, parties, pact_votes, pact_alloc, winners)
             \o SinEscanos(pacts)]

\* lines 421-434: the winners, given the second-level allocations
ConSubAllocs(cands, parties, pacts, pact_votes, pact_alloc, sub_allocs) ==
    Construir(cands, parties, pacts, pact_votes, pact_alloc, sub_allocs,
              Ganadores(cands, sub_allocs, 1))

\* lines 422-427: the second level, given the seats of the pacts
ConPactAlloc(escanos, cands, parties, pacts, pact_votes, pact_alloc) ==
    ConSubAllocs(cands, parties, pacts, pact_votes, pact_alloc,
                   SegundoNivel(parties, pact_votes, pact_alloc))

\* line 418: the first level, given the votes of the pacts
ConPactVotes(escanos, cands, parties, pacts, pact_votes) ==
    ConPactAlloc(escanos, cands, parties, pacts, pact_votes,
                 dhondt_alloc(Valores(pact_votes), escanos))

\* line 417, given the pacts
ConPactos(filas, escanos, cands, parties, pacts) ==
    ConPactVotes(escanos, cands, parties, pacts, PactVotes(pacts))

\* lines 410-414: the pacts, given the candidates and the parties
ConPartidos(filas, escanos, cands, parties) ==
    ConPactos(filas, escanos, cands, parties,
               AgruparPactos(PactNames(filas, 1, <<>>), parties))

\* lines 374-483: the candidates, the parties, and then each later section
\* of the function from the values of the sections before it
compute_dhondt(filas, escanos, encuestas) ==
    LET cands == CandidatosDe(filas, encuestas)
    IN  ConPartidos(filas, escanos, cands,
                      AgruparPartidos(filas, cands, 1, {}, <<>>))

\* ---------------------------------------------------------- resumen_nacional
\* the ids of the rosters below, in the sorted order groupby iterates them
OrdenClaves == <<"A", "B", "P1", "P2", "P3", "P4">>

\* the keys of df.groupby(campo): sorted, a missing value forming no group
ClavesCupo(filas) ==
    SelectSeq(OrdenClaves, LAMBDA c : \E k \in 1..Len(filas) : filas[k].cupo = c)
ClavesPacto(filas) ==
    SelectSeq(OrdenClaves, LAMBDA c : \E k \in 1..Len(filas) : filas[k].pacto = c)

\* lines 572-576: grupo["pacto"].iloc[0] is the pacto of the group's first row
PartidosAgrupados(filas, cands) ==
    LET cupos == ClavesCupo(filas)
    IN  [j \in 1..Len(cupos) |->
            LET primera_fila == Min({k \in 1..Len(filas) : filas[k].cupo = cupos[j]})
            IN  [id |-> cupos[j],
                 pact_id |-> IF filas[primera_fila].pacto # NaN
                             THEN filas[primera_fila].pacto ELSE Ninguno,
                 votes |-> VotosDePartido(cands, cupos[j])]]

\* lines 595-597 for the pacts that were not skipped, the accumulators being
\* empty before this district
RECURSIVE ResumenPactos(_, _, _, _)
ResumenPactos(pact_votes, pact_alloc, sub_allocs, k) ==
    IF k > Len(pact_votes) THEN <<>>
    ELSE (IF sub_allocs[k] = None THEN <<>>
          ELSE << [id |-> pact_votes[k].id, escanos |-> pact_alloc[k],
                   votos |-> pact_votes[k].votes] >>)
            \o ResumenPactos(pact_votes, pact_alloc, sub_allocs, k + 1)

\* lines 599-602
RECURSIVE ResumenPartidos(_, _, _)
ResumenPartidos(pact_votes, sub_allocs, k) ==
    IF k > Len(pact_votes) THEN <<>>
    ELSE (IF sub_allocs[k] = None THEN <<>>
          ELSE LET sub == sub_allocs[k][1]
               IN  [j \in 1..Len(sub.ids) |->
                       [id |-> sub.ids[j], escanos |-> sub.alloc[j],
                        pacto |-> pact_votes[k].id]])
            \o ResumenPartidos(pact_votes, sub_allocs, k + 1)

\* lines 526-602 when the only district with data is this one: a district
\* without rows or without poll entries is passed over
resumen_nacional(filas, escanos, encuestas) ==
    IF filas = <<>> \/ encuestas = <<>>
    THEN [parties |-> <<>>, pact_votes |-> <<>>, pact_alloc |-> <<>>,
          sub_allocs |-> <<>>, resumen_pactos |-> <<>>, resumen_partidos |-> <<>>]
    ELSE LET cands == CandidatosDe(filas, encuestas)
             parties == PartidosAgrupados(filas, cands)
             pacts == AgruparPactos(ClavesPacto(filas), parties)
             pact_votes == PactVotes(pacts)
             pact_alloc == dhondt_alloc(Valores(pact_votes), escanos)
             sub_allocs == SegundoNivel(parties, pact_votes, pact_alloc)
         IN  [parties |-> parties,
              pact_votes |-> pact_votes,
              pact_alloc |-> pact_alloc,
              sub_allocs |-> sub_allocs,
              resumen_pactos |-> ResumenPactos(pact_votes, pact_alloc, sub_allocs, 1),
              resumen_partidos |-> ResumenPartidos(pact_votes, sub_allocs, 1)]

\* ------------------------------------------------------- the district calls
NombresFila == { <<"A", "b", "c">>, <<"a_acute", "b">> }
Cupos == {"P1", "P2", "P3", "P4"}

\* P1 and P2 run in pact A, P3 in pact B, P4 in no pact
PactoDeCupo(c) ==
    CASE c = "P1" -> "A"
      [] c = "P2" -> "A"
      [] c = "P3" -> "B"
      [] OTHER -> NaN

FilasPosibles ==
    {[nombre |-> n, cupo |-> c, pacto |-> PactoDeCupo(c)] : n \in NombresFila, c \in Cupos}
Distritos == UNION {[1..n -> FilasPosibles] : n \in 0..MaxFilas}

\* the poll lists of a district, every figure numeric
Encuesta(nombre, votos) == [nombre |-> nombre, votos |-> Some(votos)]
EncuestasDistrito ==
    { <<>>,
      << Encuesta(<<" ", "A", "B", " ">>, 2) >>,
      << Encuesta(<<"b", "C">>, 2) >>,
      << Encuesta(<<"a", "b", "C">>, 3), Encuesta(<<" ", "A", "B", " ">>, 1) >>,
      << Encuesta(<<"b", "C">>, 1), Encuesta(<<" ", "A", "B", " ">>, 3) >> }

EscanosDistrito == (0..MaxEscanos) \cup {DefaultSeats}

InitCompute ==
    /\ df \in Distritos
    /\ seats \in EscanosDistrito
    /\ encuestas_by_d \in EncuestasDistrito
    /\ resultado = <<>>
    /\ computado = "none"
    /\ resumen = <<>>
    /\ resumido = "none"
    /\ votos_por_lista = <<>>
    /\ num_escanos = 0
    /\ cocientes = <<>>
    /\ ganadores = <<>>
    /\ asignacion = <<>>
    /\ llamada = "none"
    /\ prev_votos = <<>>
    /\ prev_escanos = 0
    /\ prev_asignacion = <<>>
    /\ prev_op = "none"
    /\ candidates = <<>>
    /\ candidates_in = <<>>
    /\ encuesta_lista = <<>>
    /\ threshold = DefaultThreshold
    /\ matched_candidates = {}
    /\ matched_encuestas = {}
    /\ emparejados = {}
    /\ estado = "none"
    /\ corridas = 0
    /\ primera = <<>>

\* one request for the district: lines 368-369 return the error when the
\* roster is empty
ComputeDhondt ==
    /\ computado = "none"
    /\ IF df = <<>>
       THEN /\ computado' = "error"
            /\ resultado' = resultado
       ELSE /\ computado' = "returned"
            /\ resultado' = compute_dhondt(df, seats, encuestas_by_d)
    /\ UNCHANGED <<df, seats, encuestas_by_d, resumen, resumido>>
    /\ UNCHANGED <<dhondtVars, assignVars>>

\* one request for the national summary
ResumenNacional ==
    /\ resumido = "none"
    /\ resumido' = "returned"
    /\ resumen' = resumen_nacional(df, seats, encuestas_by_d)
    /\ UNCHANGED <<df, seats, encuestas_by_d, resultado, computado>>
    /\ UNCHANGED <<dhondtVars, assignVars>>

NextCompute == ComputeDhondt \/ ResumenNacional

SpecCompute == InitCompute /\ [][NextCompute]_vars

\* ------------------------------------------------- properties: dhondt_alloc
Listas == 1..Len(votos_por_lista)
EntradaValida ==
    /\ num_escanos >= 0
    /\ \A e \in Listas : votos_por_lista[e] >= 0
HayVotosPositivos == \E e \in Listas : votos_por_lista[e] > 0

\* C1: for non-negative votes and a seat count N >= 0, the seats returned by
\* dhondt_alloc sum to exactly N whenever some entity has positive votes or
\* N = 0, and with N = 0 every entity receives 0 seats.
C1_SeatsSumToN ==
    (llamada = "returned" /\ EntradaValida) =>
        /\ (HayVotosPositivos \/ num_escanos = 0) => SumSeq(asignacion) = num_escanos
        /\ num_escanos = 0 => \A e \in Listas : asignacion[e] = 0

C1_Witness ==
    /\ llamada = "returned"
    /\ EntradaValida
    /\ Len(votos_por_lista) >= 2
    /\ num_escanos >= 2
    /\ \E e, f \in Listas : asignacion[e] >= 1 /\ asignacion[f] >= 1 /\ e # f
    /\ \E e \in Listas : votos_por_lista[e] = 0
    /\ SumSeq(asignacion) = num_escanos

\* C2: when a second call differs from the first only in that one entity E
\* has more votes (same entities, same order, same seat count), E's seats in
\* the second result are at least E's seats in the first.
C2_MonotonicInVotes ==
    (prev_op = "mas_votos") =>
        /\ Len(votos_por_lista) = Len(prev_votos)
        /\ num_escanos = prev_escanos
        /\ \A e \in Listas :
              votos_por_lista[e] > prev_votos[e] =>
                  asignacion[e] >= prev_asignacion[e]

C2_Witness ==
    /\ prev_op = "mas_votos"
    /\ Len(votos_por_lista) >= 2
    /\ \E e \in Listas :
          /\ votos_por_lista[e] > prev_votos[e]
          /\ prev_votos[e] > 0
          /\ asignacion[e] > prev_asignacion[e]
          /\ \A f \in Listas \ {e} : votos_por_lista[f] = prev_votos[f]

\* C3: a call whose vote mapping contains a negative vote total, or whose
\* seat count is negative, fails with an error instead of returning an
\* allocation.
C3_RejectsInvalidInput ==
    (llamada # "none" /\ ~EntradaValida) => llamada = "raised"

\* C4 (as stated): an entity whose vote total is zero receives zero seats,
\* for every valid input mapping that includes it and every seat count.
C4_ZeroVotesZeroSeats ==
    (llamada = "returned" /\ EntradaValida) =>
        \A e \in Listas : votos_por_lista[e] = 0 => asignacion[e] = 0

\* C4 (amended): an entity whose vote total is zero receives zero seats
\* whenever some entity of the mapping has positive votes; when no entity
\* has positive votes and N >= 1 the seats go to zero-vote entities.
C4_ZeroVotesZeroSeatsIfSomePositive ==
    (llamada = "returned" /\ HayVotosPositivos) =>
        \A e \in Listas : votos_por_lista[e] = 0 => asignacion[e] = 0

C4_Witness ==
    /\ llamada = "returned"
    /\ num_escanos >= 2
    /\ \E e, f \in Listas :
          /\ e < f
          /\ votos_por_lista[e] = 0
          /\ votos_por_lista[f] > 0
          /\ asignacion[e] = 0
          /\ asignacion[f] = num_escanos

\* C5: numerically equal quotients are ranked with the one of the entity
\* earlier in insertion order first, so a seat contested by equal quotients
\* goes to the earlier entity; with all votes zero and N >= 1 the N seats are
\* awarded, all of them to the first entity.
Seleccionado(lista, divisor) ==
    \E k \in 1..Len(ganadores) :
        ganadores[k].lista = lista /\ ganadores[k].divisor = divisor

C5_TiesByInsertionOrder ==
    (llamada = "returned") =>
        /\ \A p, q \in 1..Len(cocientes) :
              (p < q /\ ValorIgual(cocientes[p], cocientes[q])) =>
                  cocientes[p].lista <= cocientes[q].lista
        /\ \A e, f \in Listas : \A d, g \in 1..num_escanos :
              ( /\ e < f
                /\ votos_por_lista[e] * g = votos_por_lista[f] * d
                /\ Seleccionado(f, g) ) => Seleccionado(e, d)
        /\ ( /\ num_escanos >= 1
             /\ Listas # {}
             /\ \A e \in Listas : votos_por_lista[e] = 0 ) =>
                \A e \in Listas :
                    asignacion[e] = IF e = 1 THEN num_escanos ELSE 0

C5_Witness ==
    /\ llamada = "returned"
    /\ \E e, f \in Listas : \E d, g \in 1..num_escanos :
          /\ e < f
          /\ votos_por_lista[e] > 0
          /\ votos_por_lista[e] * g = votos_por_lista[f] * d
          /\ Seleccionado(e, d)
          /\ ~Seleccionado(f, g)
          /\ \A h \in 1..num_escanos : h > d => ~Seleccionado(e, h)

\* C17: for votes A = 100000, B = 80000, C = 30000 (in that order) and 5
\* seats, dhondt_alloc returns A = 3, B = 2, C = 0.
C17_WorkedExample ==
    ( /\ llamada = "returned"
      /\ votos_por_lista = <<100000, 80000, 30000>>
      /\ num_escanos = 5 ) => asignacion = <<3, 2, 0>>

C17_Witness ==
    /\ llamada = "returned"
    /\ votos_por_lista = <<100000, 80000, 30000>>
    /\ num_escanos = 5
    /\ Len(ganadores) = 5
    /\ ganadores[5].lista = 1 /\ ganadores[5].divisor = 3

\* C18: for a mapping with a single entity with votes >= 0 and any seat
\* count N >= 0, dhondt_alloc allocates all N seats to that entity.
C18_SingleEntityTakesAll ==
    ( /\ llamada = "returned"
      /\ Len(votos_por_lista) = 1
      /\ votos_por_lista[1] >= 0
      /\ num_escanos >= 0 ) => asignacion = <<num_escanos>>

C18_Witness ==
    /\ llamada = "returned"
    /\ votos_por_lista = <<0>>
    /\ num_escanos >= 2
    /\ asignacion = <<num_escanos>>

\* the sequential highest-averages procedure: the seats are awarded one at a
\* time, each to the entity maximising votes / (seats already won + 1), the
\* earliest entity in insertion order among equals
SiguienteGanador(votos, ya) ==
    CHOOSE e \in 1..Len(votos) :
        \A f \in 1..Len(votos) :
            \/ votos[e] * (ya[f] + 1) > votos[f] * (ya[e] + 1)
            \/ votos[e] * (ya[f] + 1) = votos[f] * (ya[e] + 1) /\ e <= f

RECURSIVE Secuencial(_, _, _)
Secuencial(votos, n, ya) ==
    IF n <= 0 THEN ya
    ELSE Secuencial(votos, n - 1,
                    [ya EXCEPT ![SiguienteGanador(votos, ya)] = @ + 1])

\* C20: for a non-empty mapping of non-negative votes and N >= 0,
\* dhondt_alloc returns the allocation of the sequential highest-averages
\* procedure with ties going to the earliest entity.
C20_EqualsSequentialProcedure ==
    (llamada = "returned" /\ EntradaValida /\ Listas # {}) =>
        asignacion = Secuencial(votos_por_lista, num_escanos,
                                [e \in Listas |-> 0])

C20_Witness ==
    /\ llamada = "returned"
    /\ EntradaValida
    /\ Len(votos_por_lista) = 3
    /\ num_escanos = 3
    /\ asignacion = <<1, 2, 0>>
    /\ votos_por_lista[1] * 2 = votos_por_lista[2]
    /\ votos_por_lista[3] = votos_por_lista[1]
    /\ asignacion = Secuencial(votos_por_lista, num_escanos, <<0, 0, 0>>)

\* --------------------------------- properties: assign_votes_to_candidates
Candidatos == 1..Len(candidates_in)
Encuestas == 1..Len(encuesta_lista)

\* similarity of poll entry e and candidate i on the normalized names
RatioDe(e, i) ==
    Ratio(normalize(encuesta_lista[e].nombre), normalize(candidates_in[i].name))

\* the ratios of all the pairs, computed once: <<e, i, ratio>>
TablaRatios == {<<e, i, RatioDe(e, i)>> : e \in Encuestas, i \in Candidatos}

\* the pairs <<e, i>> such that candidate i is the first candidate of highest
\* ratio for poll entry e and that ratio reaches the threshold
MejoresConUmbral ==
    LET t == TablaRatios
    IN  {<<x[1], x[2]>> : x \in
            {x \in t :
                /\ \A y \in t : (y[1] = x[1]) =>
                      /\ y[3][1] * x[3][2] <= x[3][1] * y[3][2]
                      /\ (y[2] < x[2]) => y[3][1] * x[3][2] < x[3][1] * y[3][2]
                /\ x[3][1] * 1000 >= threshold * x[3][2]}}

MejorConUmbral(e, i) == <<e, i>> \in MejoresConUmbral

\* some poll entry's best match was already the best match of an earlier one
HayDuplicado(m) == \E p, q \in m : p[1] < q[1] /\ p[2] = q[2]
Duplicado == HayDuplicado(MejoresConUmbral)

\* candidate i carries the votes and provenance of poll entry e
LlevaDatosDe(i, e) ==
    /\ candidates[i].votes = FloatOr0(encuesta_lista[e].votos)
    /\ candidates[i].matched_from = Some(encuesta_lista[e].nombre)
    /\ candidates[i].match_quality = Round3(RatioDe(e, i))

\* C6: after a successful run the matching of poll entries to candidates is
\* injective both ways: no poll entry is assigned to two candidates and no
\* candidate receives two poll entries.
C6_MatchingInjective ==
    (estado = "returned") =>
        LET m == MejoresConUmbral
        IN  /\ \A p, q \in emparejados : (p[1] = q[1]) <=> (p[2] = q[2])
            /\ matched_encuestas = {p[1] : p \in emparejados}
            /\ matched_candidates = {p[2] : p \in emparejados}
            /\ m \subseteq emparejados

C6_Witness ==
    /\ estado = "returned"
    /\ Cardinality(emparejados) = 2
    /\ Len(encuesta_lista) = 2

\* C7: if the best match (ratio >= threshold) of a poll entry is a candidate
\* already matched by an earlier poll entry, the call fails with the
\* duplicate error, and the candidate keeps the votes and provenance of the
\* earlier match.
C7_DuplicateRaisesWithoutOverwrite ==
    (estado # "none") =>
        LET m == MejoresConUmbral
        IN  HayDuplicado(m) =>
              /\ estado = "raised"
              /\ \E p \in emparejados : \E q \in m : p[1] < q[1] /\ p[2] = q[2]
              /\ \A p \in emparejados : LlevaDatosDe(p[2], p[1])

C7_Witness ==
    /\ estado = "raised"
    /\ \E p \in emparejados : \E e \in Encuestas :
          /\ p[1] < e
          /\ MejorConUmbral(e, p[2])
          /\ encuesta_lista[e].votos # encuesta_lista[p[1]].votos
          /\ encuesta_lista[e].nombre # encuesta_lista[p[1]].nombre
          /\ LlevaDatosDe(p[2], p[1])

\* C8 (as stated): a candidate matched by an earlier poll entry is excluded
\* from consideration, so a later poll entry whose overall best candidate is
\* already taken is unmatched or matched elsewhere and the call does not fail.
C8_TakenCandidateExcluded ==
    (estado # "none" /\ Duplicado) => estado = "returned"

\* C8 (amended): each poll entry's best match is selected among all the
\* candidates, matched or not; the call fails exactly when the best match
\* (ratio >= threshold) of some poll entry was already matched by an earlier
\* one, also when another, unmatched candidate reaches the threshold.
C8_BestAmongAllCandidates ==
    (estado # "none") =>
        LET m == MejoresConUmbral
        IN  /\ (estado = "raised") <=> HayDuplicado(m)
            /\ emparejados \subseteq m

C8_Witness ==
    /\ estado = "raised"
    /\ \E p \in emparejados : \E e \in Encuestas : \E j \in Candidatos :
          /\ p[1] < e
          /\ MejorConUmbral(e, p[2])
          /\ j \notin matched_candidates
          /\ RatioDe(e, j)[1] * 1000 >= threshold * RatioDe(e, j)[2]

\* C9: in a successful run a poll entry is matched if and only if its highest
\* ratio over the candidates is >= the threshold (inclusive); the selected
\* candidate then has that entry's votes, raw name and rounded ratio; an
\* entry below the threshold changes no candidate's votes.
C9_ThresholdInclusive ==
    (estado = "returned" /\ encuesta_lista # <<>>) =>
        LET m == MejoresConUmbral
        IN  /\ matched_encuestas = {p[1] : p \in m}
            /\ \A p \in m : LlevaDatosDe(p[2], p[1])
            /\ \A i \in Candidatos :
                  (\A p \in m : p[2] # i) =>
                      candidates[i].votes = candidates_in[i].votes

C9_Witness ==
    /\ estado = "returned"
    /\ threshold = DefaultThreshold
    /\ \E e, f \in Encuestas : \E i \in Candidatos :
          /\ MejorConUmbral(e, i)
          /\ RatioDe(e, i) = <<4, 5>>
          /\ candidates[i].match_quality = 800
          /\ candidates[i].votes = VotoEncuesta
          /\ candidates_in[i].votes # VotoEncuesta
          /\ f \notin matched_encuestas
          /\ \E j \in Candidatos : RatioDe(f, j)[1] > 0

\* C10: after a successful run every candidate matched by no poll entry has
\* vote count 0.0 and matched_from None, whatever the record contained on
\* input and whether or not the poll list is empty.
C10_UnmatchedCandidatesZero ==
    (estado = "returned") =>
        \A i \in Candidatos :
            i \notin matched_candidates =>
                candidates[i].votes = 0 /\ candidates[i].matched_from = None

\* C11: running assign_votes_to_candidates a second time on the candidate
\* list the first run left and the same poll list gives every candidate the
\* same votes, matched_from and match_quality as the first run, and ends the
\* same way.
C11_Idempotent ==
    (corridas = 2) =>
        /\ Len(candidates) = Len(primera[1])
        /\ \A i \in Candidatos :
              /\ candidates[i].votes = primera[1][i].votes
              /\ candidates[i].matched_from = primera[1][i].matched_from
              /\ candidates[i].match_quality = primera[1][i].match_quality
        /\ estado = primera[2]

C11_Witness ==
    /\ corridas = 2
    /\ estado = "returned"
    /\ \E p \in emparejados : candidates_in[p[2]].votes # candidates[p[2]].votes
    /\ \E i \in Candidatos : i \notin matched_candidates /\ candidates[i].votes > 0

\* C19 (as stated): with the reconciler's normalization and ratio, the poll
\* name "Jose Kast" matches the candidate "José Antonio Kast" with ratio
\* >= 0.8, and "María Pérez" does not match "Juan López".
EsEjemplo(candidato, encuesta) ==
    /\ estado = "returned"
    /\ Len(candidates_in) = 1
    /\ Len(encuesta_lista) = 1
    /\ candidates_in[1].name = candidato
    /\ encuesta_lista[1].nombre = encuesta
    /\ threshold = DefaultThreshold

C19_KastMatches ==
    /\ EsEjemplo(JoseAntonioKast, JoseKast) =>
          /\ RatioDe(1, 1)[1] * 1000 >= 800 * RatioDe(1, 1)[2]
          /\ emparejados = {<<1, 1>>}
    /\ EsEjemplo(JuanLopez, MariaPerez) =>
          /\ RatioDe(1, 1)[1] * 1000 < 800 * RatioDe(1, 1)[2]
          /\ emparejados = {}

\* C19 (amended): "Jose Kast" against "José Antonio Kast" normalizes to
\* "jose kast" against "jose antonio kast", 9 matched characters of 26, a
\* ratio of 18/26 (about 0.692) below 0.8, so the poll entry is not matched;
\* "María Pérez" against "Juan López" has ratio 10/21 and is not matched.
C19_KastBelowThreshold ==
    /\ EsEjemplo(JoseAntonioKast, JoseKast) =>
          /\ normalize(JoseAntonioKast) =
                <<"j", "o", "s", "e", " ", "a", "n", "t", "o", "n", "i", "o",
                  " ", "k", "a", "s", "t">>
          /\ RatioDe(1, 1) = <<18, 26>>
          /\ emparejados = {}
          /\ candidates[1].votes = 0 /\ candidates[1].matched_from = None
    /\ EsEjemplo(JuanLopez, MariaPerez) =>
          /\ RatioDe(1, 1) = <<10, 21>>
          /\ emparejados = {}
          /\ candidates[1].votes = 0 /\ candidates[1].matched_from = None

C19_Witness ==
    /\ EsEjemplo(JoseAntonioKast, JoseKast)
    /\ matched_encuestas = {}
    /\ corridas = 1

\* ------------------------------------------------- claims on compute_dhondt
Pactos == 1..Len(resultado.pact_votes)

\* a party of positive votes belongs to pact k
TienePartidoPositivo(parties, pacto) ==
    \E j \in 1..Len(parties) : parties[j].pact_id = pacto /\ parties[j].votes > 0

\* the seats the second level gave to the parties of pact k
EscanosDePartidos(sub_alloc) ==
    IF sub_alloc = None THEN 0 ELSE SumSeq(sub_alloc[1].alloc)

\* C12 as stated: the seats awarded to the pacts always sum to the district's
\* seat count
C12_PactSeatsSumToSeats ==
    (computado = "returned") => SumSeq(resultado.pact_alloc) = seats

\* C12 amended: the seats awarded to the pacts sum to the district's seat
\* count whenever some row of the roster names a pact
C12_PactSeatsSumIfSomePact ==
    (computado = "returned" /\ \E k \in 1..Len(df) : df[k].pacto # NaN) =>
        /\ Len(resultado.pact_alloc) = Len(resultado.pact_votes)
        /\ SumSeq(resultado.pact_alloc) = seats

C12_Witness ==
    /\ computado = "returned"
    /\ Len(resultado.pact_alloc) = 2
    /\ resultado.pact_alloc[1] >= 1
    /\ resultado.pact_alloc[2] >= 1

\* C13 as stated: for every pact the seats of its parties sum to the seats
\* the pact was awarded
C13_PartySeatsSumToPactSeats ==
    (computado = "returned") =>
        \A k \in Pactos :
            EscanosDePartidos(resultado.sub_allocs[k]) = resultado.pact_alloc[k]

\* C13 amended: for every pact that has a party of positive votes the seats
\* of its parties sum to the seats the pact was awarded
C13_PartySeatsSumIfPositiveParty ==
    (computado = "returned") =>
        \A k \in Pactos :
            TienePartidoPositivo(resultado.parties, resultado.pact_votes[k].id) =>
                /\ resultado.sub_allocs[k] # None
                /\ SumSeq(resultado.sub_allocs[k][1].alloc) = resultado.pact_alloc[k]

C13_Witness ==
    /\ computado = "returned"
    /\ \E k \in Pactos :
          /\ resultado.sub_allocs[k] # None
          /\ Len(resultado.sub_allocs[k][1].alloc) = 2
          /\ resultado.sub_allocs[k][1].alloc[1] >= 1
          /\ resultado.sub_allocs[k][1].alloc[2] >= 1

\* the parties of positive votes of a pact, as positions in parties
PartidosPositivos(parties, pacto) ==
    {j \in 1..Len(parties) : parties[j].pact_id = pacto /\ parties[j].votes > 0}

\* the second level takes exactly the parties of positive votes of each pact
\* and passes over the pacts that have none
SoloPartidosPositivos(parties, pact_votes, sub_allocs) ==
    \A k \in 1..Len(pact_votes) :
        LET positivos == PartidosPositivos(parties, pact_votes[k].id)
        IN  IF positivos = {} THEN sub_allocs[k] = None
            ELSE /\ sub_allocs[k] # None
                 /\ Len(sub_allocs[k][1].ids) = Cardinality(positivos)
                 /\ {sub_allocs[k][1].ids[j] : j \in 1..Len(sub_allocs[k][1].ids)}
                        = {parties[j].id : j \in positivos}

\* the seats of the pacts that were not passed over
EscanosNoOmitidos(pact_alloc, sub_allocs) ==
    SumSeq([k \in 1..Len(pact_alloc) |->
               IF sub_allocs[k] = None THEN 0 ELSE pact_alloc[k]])

\* the pact of a party, by the party's id
PactoDePartido(parties, pid) ==
    parties[CHOOSE j \in 1..Len(parties) : parties[j].id = pid].pact_id

\* a pact that was awarded seats and passed over
OmitidoConEscanos(r) ==
    \E k \in 1..Len(r.pact_votes) : r.pact_alloc[k] > 0 /\ r.sub_allocs[k] = None

\* C14: in compute_dhondt and in resumen_nacional only the parties of
\* strictly positive votes take part in the second level; a pact without such
\* a party is passed over, none of its candidates is elected, and its seats go
\* to no other pact
C14_OnlyPositivePartiesSkipNotRedistributed ==
    /\ (computado = "returned") =>
          /\ SoloPartidosPositivos(resultado.parties, resultado.pact_votes,
                                   resultado.sub_allocs)
          /\ \A k \in Pactos :
                (resultado.sub_allocs[k] = None) =>
                    \A w \in 1..Len(resultado.winners) :
                        PactoDePartido(resultado.parties,
                                       resultado.candidates[resultado.winners[w]].party_id)
                            # resultado.pact_votes[k].id
          /\ \A k \in Pactos :
                EscanosDePartidos(resultado.sub_allocs[k]) <= resultado.pact_alloc[k]
          /\ Len(resultado.winners)
                <= EscanosNoOmitidos(resultado.pact_alloc, resultado.sub_allocs)
    /\ (resumido = "returned") =>
          /\ SoloPartidosPositivos(resumen.parties, resumen.pact_votes,
                                   resumen.sub_allocs)
          /\ \A k \in 1..Len(resumen.pact_votes) :
                (resumen.sub_allocs[k] = None) =>
                    /\ \A j \in 1..Len(resumen.resumen_pactos) :
                          resumen.resumen_pactos[j].id # resumen.pact_votes[k].id
                    /\ \A j \in 1..Len(resumen.resumen_partidos) :
                          resumen.resumen_partidos[j].pacto # resumen.pact_votes[k].id
          /\ \A k \in 1..Len(resumen.pact_votes) :
                EscanosDePartidos(resumen.sub_allocs[k]) <= resumen.pact_alloc[k]
          /\ SumSeq([j \in 1..Len(resumen.resumen_partidos) |->
                        resumen.resumen_partidos[j].escanos])
                = EscanosNoOmitidos(resumen.pact_alloc, resumen.sub_allocs)

C14_Witness ==
    /\ computado = "returned"
    /\ resumido = "returned"
    /\ Len(resultado.pact_votes) = 2
    /\ OmitidoConEscanos(resultado)
    /\ OmitidoConEscanos(resumen)

\* the elected candidates of party pid, in the order they were appended
ElectosDe(r, pid) ==
    SelectSeq(r.winners, LAMBDA w : r.candidates[w].party_id = pid)

\* the rows of party pid
FilasDe(r, pid) ==
    {i \in 1..Len(r.candidates) : r.candidates[i].party_id = pid}

\* row a ranks above row b: more votes, or equal votes and earlier in the roster
RankAbove(r, a, b) ==
    \/ r.candidates[a].votes > r.candidates[b].votes
    \/ (r.candidates[a].votes = r.candidates[b].votes /\ a < b)

\* the elected candidates of a party awarded n seats are its top n
TopN(r, pid, n) ==
    LET e == ElectosDe(r, pid)
        filas == FilasDe(r, pid)
    IN  /\ Len(e) = (IF n < Cardinality(filas) THEN n ELSE Cardinality(filas))
        /\ \A a \in 1..Len(e) : e[a] \in filas
        /\ \A a, b \in 1..Len(e) : (a < b) => RankAbove(r, e[a], e[b])
        /\ \A c \in filas :
              (\A a \in 1..Len(e) : e[a] # c) =>
                  \A a \in 1..Len(e) : RankAbove(r, e[a], c)

\* C15: for a party awarded n seats the elected candidates are its top n by
\* votes, descending, candidates of equal votes in roster order, and no other
\* candidate of the party is elected
C15_TopNByVotesStable ==
    (computado = "returned") =>
        \A k \in Pactos :
            (resultado.sub_allocs[k] # None) =>
                \A j \in 1..Len(resultado.sub_allocs[k][1].ids) :
                    TopN(resultado, resultado.sub_allocs[k][1].ids[j],
                         resultado.sub_allocs[k][1].alloc[j])

\* a party with two candidates of equal positive votes and one seat elects
\* the first of them
C15_Witness ==
    /\ computado = "returned"
    /\ Len(df) = 2
    /\ df[1].cupo = df[2].cupo
    /\ resultado.candidates[1].votes = resultado.candidates[2].votes
    /\ resultado.candidates[1].votes > 0
    /\ resultado.winners = <<1>>

\* the roster of the district as get_emol_csv hands it to the reconciler
\* (lines 325-333), reconciled against the district's poll list
Reconciliado ==
    assign_votes_to_candidates(Roster([i \in 1..Len(df) |-> df[i].nombre], FALSE),
                               encuestas_by_d, DefaultThreshold)

\* C16: whenever assign_votes_to_candidates succeeds on the district's roster
\* and poll list, the votes compute_dhondt gives each candidate are the votes
\* assign_votes_to_candidates assigns
C16_VotesAreReconcilerVotes ==
    (computado = "returned") =>
        LET r == Reconciliado
        IN  (~r.raised) =>
                \A i \in 1..Len(df) :
                    resultado.candidates[i].votes = r.candidates[i].votes

\* C21: in compute_dhondt the winners are never more than the district's
\* seats, the elected candidates of each pact are never more than the pact's
\* escanos, no candidate is elected twice, and a party awarded more seats than
\* it has candidates elects its existing candidates only
C21_WinnersWithinSeats ==
    (computado = "returned") =>
        /\ Len(resultado.winners) <= seats
        /\ \A k \in 1..Len(resultado.resultado_por_pacto) :
              Len(resultado.resultado_por_pacto[k].candidatos_electos)
                  <= resultado.resultado_por_pacto[k].escanos
        /\ \A a, b \in 1..Len(resultado.winners) :
              (a # b) => resultado.winners[a] # resultado.winners[b]
        /\ \A a \in 1..Len(resultado.winners) : resultado.winners[a] \in 1..Len(df)
        /\ \A k \in Pactos :
              (resultado.sub_allocs[k] # None) =>
                  \A j \in 1..Len(resultado.sub_allocs[k][1].ids) :
                      LET pid == resultado.sub_allocs[k][1].ids[j]
                          n == resultado.sub_allocs[k][1].alloc[j]
                          filas == {i \in 1..Len(df) : df[i].cupo = pid}
                          electos == {a \in 1..Len(resultado.winners) :
                                         df[resultado.winners[a]].cupo = pid}
                      IN  /\ Cardinality(electos) <= n
                          /\ (n > Cardinality(filas)) =>
                                Cardinality(electos) = Cardinality(filas)

\* a district with two winners and seats to spare, one pact electing its only
\* candidate although it was awarded more than one seat
C21_Witness ==
    /\ computado = "returned"
    /\ Len(resultado.winners) = 2
    /\ Len(resultado.winners) < seats
    /\ \E k \in 1..Len(resultado.resultado_por_pacto) :
          /\ Len(resultado.resultado_por_pacto[k].candidatos_electos) = 1
          /\ resultado.resultado_por_pacto[k].escanos > 1

\* C22: for a fixed non-empty mapping of non-negative votes, a second call
\* with one more seat lowers no entity's seats and raises the seats of exactly
\* one entity, by one
C22_HouseMonotone ==
    (/\ prev_op = "mas_escanos"
     /\ prev_escanos >= 0
     /\ Len(votos_por_lista) >= 1
     /\ \A e \in Listas : votos_por_lista[e] >= 0) =>
        /\ votos_por_lista = prev_votos
        /\ num_escanos = prev_escanos + 1
        /\ \A e \in Listas : asignacion[e] >= prev_asignacion[e]
        /\ \E e \in Listas :
              /\ asignacion[e] = prev_asignacion[e] + 1
              /\ \A f \in Listas \ {e} : asignacion[f] = prev_asignacion[f]

\* after a first call of at least one seat, two entities tie for the added
\* seat and the first of them in insertion order takes it
C22_Witness ==
    /\ prev_op = "mas_escanos"
    /\ prev_escanos >= 1
    /\ Len(votos_por_lista) >= 2
    /\ \A e \in Listas : votos_por_lista[e] >= 1
    /\ asignacion[1] = prev_asignacion[1] + 1
    /\ \E e \in Listas \ {1} :
          votos_por_lista[e] * (prev_asignacion[1] + 1)
              = votos_por_lista[1] * (prev_asignacion[e] + 1)

====
